---------------------------- MODULE Spec2Model ----------------------------
(***************************************************************************)
(* Model of the UIDAI analytics backend (backend/main.py, core/storage.py, *)
(* core/database.py): schema inference at ingestion, the three persistence *)
(* tiers (memory tables, CSV files on disk, MongoDB collections) and the   *)
(* request handlers that read and write them.                              *)
(***************************************************************************)
EXTENDS Integers, Sequences, FiniteSets, TLC

(***************************************************************************)
(* Bounds of the model.                                                    *)
(***************************************************************************)
\* longest uploaded table, in rows
MaxRows == 6
\* upload requests accepted over one behaviour
MaxUploads == 2
\* process restarts over one behaviour
MaxRestarts == 1
\* the longest series a helper is called on
MaxLen == 4
\* the most regions a ranked table has
MaxRegions == 22
\* the longest horizon a forecast is asked for
MaxHorizon == 3

(***************************************************************************)
(* Program constants.                                                      *)
(***************************************************************************)
\* main.py:404  data_type = "TIME_SERIES" if unique_time_points >= 3
TIME_SERIES_MIN == 3
\* main.py:405  can_predict = ... and unique_time_points >= 6
PREDICT_MIN == 6
\* main.py:468  for attempt in range(15)
HISTORY_ATTEMPTS == 15
\* main.py:212  df[col].dropna().iloc[:10]
SNIFF_ROWS == 10
\* calculate_moving_average(values, window=3)
WINDOW == 3
\* main.py:591  .head(20)
TOP_N == 20

None == "None"

(***************************************************************************)
(* Generic helpers on sequences.                                           *)
(***************************************************************************)
Range(s) == {s[i] : i \in DOMAIN s}

Min(a, b) == IF a <= b THEN a ELSE b

\* the elements of s at the positions satisfying keep, in order
RECURSIVE FilterIdx(_, _, _)
FilterIdx(s, keep, i) ==
    IF i > Len(s) THEN <<>>
    ELSE (IF keep[i] THEN <<s[i]>> ELSE <<>>) \o FilterIdx(s, keep, i + 1)

(***************************************************************************)
(* Cells.  A cell is [k |-> kind, v |-> n].  Kinds of a cell read from CSV *)
(* text:                                                                   *)
(*   "int"  a number n                                                     *)
(*   "nan"  an empty field                                                 *)
(*   "iso"  text pandas' generic date inference parses, to date n; it      *)
(*          holds a "-"                                                    *)
(*   "dmon" text only "%d-%b-%Y" parses once a year is appended ("21-Oct")*)
(*   "dm29" such text for 29 February: it parses once a leap year is       *)
(*          appended                                                       *)
(*   "mony" text only "%b-%y" parses ("Oct-24")                            *)
(*   "txt"  free text without "-", no date format parses it                *)
(*   "txd"  free text holding a "-", no date format parses it              *)
(* and of a cell of a cleaned frame:                                       *)
(*   "ts"   a parsed timestamp n;  "nat"  the missing timestamp NaT        *)
(***************************************************************************)
Cell(k, v) == [k |-> k, v |-> v]
NaN == Cell("nan", 0)
NaT == Cell("nat", 0)

IsStr(c) == c.k \in {"iso", "dmon", "dm29", "mony", "txt", "txd"}
IsNull(c) == c.k \in {"nan", "nat"}
HasDash(c) == c.k \in {"iso", "dmon", "dm29", "mony", "txd"}

(***************************************************************************)
(* Data frames: [columns |-> <<name, ...>>, rows |-> <<row, ...>>], a row  *)
(* a function from column name to cell.  CSV text: [header, lines], a line *)
(* a sequence of cells by position.                                        *)
(***************************************************************************)
Column(df, col) == [i \in DOMAIN df.rows |-> df.rows[i][col]]

\* pd.read_csv: the header names the columns, each line becomes a row
read_csv(csv) ==
    [columns |-> csv.header,
     rows |-> [i \in DOMAIN csv.lines |->
                 [c \in Range(csv.header) |->
                    csv.lines[i][CHOOSE j \in DOMAIN csv.header : csv.header[j] = c]]]]

\* a timestamp is written as date text, every other cell as it was read
CsvCell(c) == IF c.k = "ts" THEN Cell("iso", c.v)
              ELSE IF c.k = "nat" THEN NaN ELSE c

\* df.to_csv(index=False)
to_csv(df) ==
    [header |-> df.columns,
     lines |-> [i \in DOMAIN df.rows |->
                  [j \in DOMAIN df.columns |-> CsvCell(df.rows[i][df.columns[j]])]]]

\* zlib.compress / zlib.decompress of the CSV text
Compress(csv) == [zlib |-> csv]
Decompress(blob) == blob.zlib

\* pd.api.types.is_numeric_dtype(df[col]): every cell a number or empty
is_numeric_dtype(df, col) == \A i \in DOMAIN df.rows : df.rows[i][col].k \in {"int", "nan"}

\* df[col].dtype == 'object': the column holds text
is_object_dtype(df, col) == \E i \in DOMAIN df.rows : IsStr(df.rows[i][col])

(***************************************************************************)
(* Column names of the uploads and what str.lower(), str.split('_') and    *)
(* the substring test make of them.                                        *)
(***************************************************************************)
ColumnNames == {"Year", "State", "value", "state_date", "label"}

Lower(col) == IF col = "Year" THEN "year" ELSE IF col = "State" THEN "state" ELSE col

SplitUnderscore(s) == IF s = "state_date" THEN {"state", "date"} ELSE {s}

time_keywords == {"year", "month", "date", "day", "time", "period", "quarter", "fy", "fiscal"}

region_keywords == {"state", "region", "district", "city", "location", "area", "zone",
                    "territory", "aua", "agency", "organization", "registrar", "name",
                    "company"}

\* keyword in col_lower, for the lower-cased names above
Contains(s, kw) ==
    \/ s = kw
    \/ s = "state_date" /\ kw = "state"

(***************************************************************************)
(* pd.to_datetime under the three formats the upload tries.                *)
(***************************************************************************)
\* the calendar years an upload may run in
Years == {2024, 2025}

Leap(year) == year % 4 = 0 /\ (year % 100 # 0 \/ year % 400 = 0)

\* generic inference, errors='coerce': date text and numbers convert
ParseGeneric(c) == IF c.k \in {"iso", "int", "ts"} THEN Cell("ts", c.v) ELSE NaT

\* original_dates.astype(str) + "-<year>" under format "%d-%b-%Y"
\* with current_year = pd.Timestamp.now().year; day n of year y is the
\* timestamp 1000 * y + n
ParseDayMonth(c, current_year) ==
    IF c.k = "dmon" \/ (c.k = "dm29" /\ Leap(current_year))
    THEN Cell("ts", 1000 * current_year + c.v)
    ELSE NaT

\* format "%b-%y"
ParseMonthYear(c) == IF c.k = "mony" THEN Cell("ts", c.v) ELSE NaT

\* the column with every cell converted by parse
MapColumn(df, col, cells) ==
    [df EXCEPT !.rows = [i \in DOMAIN df.rows |-> [df.rows[i] EXCEPT ![col] = cells[i]]]]

NaCount(cells) == Cardinality({i \in DOMAIN cells : IsNull(cells[i])})

NotNull(cells) == FilterIdx(cells, [i \in DOMAIN cells |-> ~IsNull(cells[i])], 1)

\* df[col].nunique(): distinct non-null values
nunique(cells) == Cardinality({cells[i] : i \in {j \in DOMAIN cells : ~IsNull(cells[j])}})

(***************************************************************************)
(* The series helpers of the trend endpoint.  A float the code rounds to   *)
(* two decimals is the integer number of its hundredths; None is Null.     *)
(* No division of the model falls on a rounding tie.                       *)
(***************************************************************************)
Null == Cell("null", 0)
Float2(hundredths) == Cell("float", hundredths)

\* the integer nearest to num / den (den # 0)
RoundDiv(num, den) ==
    IF den > 0 THEN (2 * num + den) \div (2 * den)
    ELSE (2 * (0 - num) + (0 - den)) \div (2 * (0 - den))

RECURSIVE Sum(_)
Sum(values) == IF values = <<>> THEN 0 ELSE Head(values) + Sum(Tail(values))

MovingAverageFromWindow(values, window) ==
    [j \in 1..Len(values) |->
        IF j - 1 < window THEN Null
        ELSE Float2(RoundDiv(100 * Sum(SubSeq(values, j - window + 1, j)), window))]

\* lines 242-251; j is the code's i + 1
calculate_moving_average(values, window) ==
    [j \in 1..Len(values) |->
        IF j - 1 < window - 1 THEN Null
        ELSE Float2(RoundDiv(100 * Sum(SubSeq(values, j - window + 1, j)), window))]

\* lines 253-262: result = [None], then one entry for each i in 1..len-1
calculate_growth_rates(values) ==
    <<Null>> \o [k \in 1..(Len(values) - 1) |->
                   IF values[k] # 0
                   THEN Float2(RoundDiv((values[k + 1] - values[k]) * 10000, values[k]))
                   ELSE Null]

(***************************************************************************)
(* perform_linear_regression (lines 264-301).  The least-squares line      *)
(* through (x, y) is kept exactly: with n points, D = n*Sxx - Sx^2,        *)
(* slope = (n*Sxy - Sx*Sy) / D and intercept = (Sy*Sxx - Sx*Sxy) / D.      *)
(* A residual is R / D, and std_error = np.std(residuals) is               *)
(* sqrt(ss / n) / D with ss the sum of the R^2; a margin is kept as its    *)
(* two factors, std_error and the tenths 15 + i of (1.5 + 0.1 * i).        *)
(***************************************************************************)
Square(a) == a * a

\* LinearRegression().fit(X, y), for at least two different x
Fit(time_indices, values) ==
    LET n == Len(time_indices)
        Sx == Sum(time_indices)
        Sy == Sum(values)
        Sxx == Sum([i \in 1..n |-> Square(time_indices[i])])
        Sxy == Sum([i \in 1..n |-> time_indices[i] * values[i]])
    IN  [slope |-> n * Sxy - Sx * Sy,
         intercept |-> Sy * Sxx - Sx * Sxy,
         den |-> n * Sxx - Square(Sx)]

\* model.predict at x, as the fraction num / den
PredictAt(model, x) == [num |-> model.intercept + model.slope * x, den |-> model.den]

\* np.std(y - model.predict(X))
StdError(model, time_indices, values) ==
    [ss |-> Sum([i \in 1..Len(values) |->
                    Square(model.den * values[i] - PredictAt(model, time_indices[i]).num)]),
     n |-> Len(values),
     den |-> model.den]

\* list(range(len(time_indices) + 1, len(time_indices) + forecast_periods + 1))
FutureIndices(n, forecast_periods) ==
    [i \in 1..forecast_periods |-> n + i]

MarginFlat(std_error, i) == [std_error |-> std_error, tenths |-> 15]

\* std_error * (1.5 + 0.1 * i)
Margin(std_error, i) == [std_error |-> std_error, tenths |-> 15 + i]

\* round(float(x), 2) of a fraction
Round2(x) == Float2(RoundDiv(100 * x.num, x.den))

\* round(x, 4) of a fraction, in ten-thousandths
Round4(num, den) == Cell("float4", RoundDiv(10000 * num, den))

\* r2 is left out: nothing below reads it
perform_linear_regression(time_indices, values, forecast_periods) ==
    LET model == Fit(time_indices, values)
        future_indices == FutureIndices(Len(time_indices), forecast_periods)
        std_error == StdError(model, time_indices, values)
    IN  [slope |-> Round4(model.slope, model.den),
         intercept |-> Round4(model.intercept, model.den),
         predictions |->
            [k \in DOMAIN future_indices |->
                LET pred == PredictAt(model, future_indices[k])
                    \* enumerate counts i from 0
                    margin == Margin(std_error, k - 1)
                IN  [period |-> <<"Forecast ", k>>,
                     index |-> future_indices[k],
                     value |-> Round2(pred),
                     margin |-> margin,
                     lowerBound |-> [pred |-> pred, sign |-> 0 - 1, margin |-> margin],
                     upperBound |-> [pred |-> pred, sign |-> 1, margin |-> margin]]]]

(***************************************************************************)
(* Schema detection helpers.                                               *)
(***************************************************************************)
NameIsTime(col) ==
    \E keyword \in time_keywords :
        keyword = Lower(col) \/ keyword \in SplitUnderscore(Lower(col))

\* pd.to_datetime(df[col].dropna().iloc[:10]) raises unless every sampled value parses
SniffsAsDate(df, col) ==
    LET sample == SubSeq(NotNull(Column(df, col)), 1,
                         Min(SNIFF_ROWS, Len(NotNull(Column(df, col)))))
    IN  \A i \in DOMAIN sample : ~IsNull(ParseGeneric(sample[i]))

\* the first column, in the frame's order, among those in cols
FirstCol(df, cols) ==
    IF \E j \in DOMAIN df.columns : df.columns[j] \in cols
    THEN df.columns[CHOOSE j \in DOMAIN df.columns :
                       /\ df.columns[j] \in cols
                       /\ \A k \in 1..(j - 1) : df.columns[k] \notin cols]
    ELSE None

detect_time_column(df) ==
    LET byName == FirstCol(df, {col \in Range(df.columns) : NameIsTime(col)})
    IN  IF byName # None THEN byName
        ELSE FirstCol(df, {col \in Range(df.columns) :
                              is_object_dtype(df, col) /\ SniffsAsDate(df, col)})

detect_region_column(df) ==
    FirstCol(df, {col \in Range(df.columns) :
                     \E keyword \in region_keywords : Contains(Lower(col), keyword)})

MetricsIncludingRoles(df, time_col, region_col) ==
    SelectSeq(df.columns, LAMBDA col : is_numeric_dtype(df, col))

detect_metric_columns(df, time_col, region_col) ==
    LET exclude_cols == {time_col, region_col} \ {None}
    IN  SelectSeq(df.columns, LAMBDA col : col \notin exclude_cols /\ is_numeric_dtype(df, col))

(***************************************************************************)
(* Date cleaning of the time column at ingestion (upload_csv, "Data        *)
(* Cleaning & Sorting").                                                   *)
(***************************************************************************)
\* the rows in ascending order of the timestamp in col; rows of equal
\* timestamp keep their order (frames of this size are insertion-sorted)
RECURSIVE SortRowsUpTo(_, _, _)
SortRowsUpTo(rows, col, n) ==
    IF n = 0 THEN <<>>
    ELSE LET before == SortRowsUpTo(rows, col, n - 1)
             k == Len(before)
             \* the new row goes after every row that is not later
             pos == Cardinality({j \in 1..k : before[j][col].v <= rows[n][col].v})
         IN  SubSeq(before, 1, pos) \o <<rows[n]>> \o SubSeq(before, pos + 1, k)

sort_values(df, col) == [df EXCEPT !.rows = SortRowsUpTo(df.rows, col, Len(df.rows))]

\* df.dropna(subset=[col])
dropna(df, col) ==
    [df EXCEPT !.rows =
        FilterIdx(df.rows, [i \in DOMAIN df.rows |-> ~IsNull(df.rows[i][col])], 1)]

ManyNaTAtHalf(cells) == 2 * NaCount(cells) >= Len(cells)

\* isna().sum() > len(df) * 0.5
ManyNaT(cells) == 2 * NaCount(cells) > Len(cells)

\* lines 365-367: sample = original_dates.dropna().iloc[0], or "" when all
\* are null; isinstance(sample, str) and "-" in sample
SampleHasDash(original_dates) ==
    LET present == NotNull(original_dates)
    IN  present # <<>> /\ IsStr(present[1]) /\ HasDash(present[1])

\* lines 358-380: the generic parse, then the two fallback formats
ParsedDates(original_dates, current_year) ==
    LET generic  == [i \in DOMAIN original_dates |-> ParseGeneric(original_dates[i])]
        dayMonth == [i \in DOMAIN original_dates |-> ParseDayMonth(original_dates[i], current_year)]
        monYear  == [i \in DOMAIN original_dates |-> ParseMonthYear(original_dates[i])]
    IN  IF ManyNaT(generic) /\ SampleHasDash(original_dates)
        THEN (IF ManyNaT(dayMonth) THEN monYear ELSE dayMonth)
        ELSE generic

\* the formats the upload runs over the column (lines 358, 373, 377)
FormatsTried(original_dates, current_year) ==
    LET generic  == [i \in DOMAIN original_dates |-> ParseGeneric(original_dates[i])]
        dayMonth == [i \in DOMAIN original_dates |-> ParseDayMonth(original_dates[i], current_year)]
    IN  {"generic"}
        \cup (IF ManyNaT(generic) /\ SampleHasDash(original_dates)
              THEN {"day-month"} \cup (IF ManyNaT(dayMonth) THEN {"month-year"} ELSE {})
              ELSE {})

CleanDatesKeepingRole(df, time_col, current_year) ==
    IF time_col = None THEN [df |-> df, time_col |-> None, tried |-> {}]
    ELSE LET original_dates == Column(df, time_col)
             parsed == MapColumn(df, time_col, ParsedDates(original_dates, current_year))
             valid_dates == Len(df.rows) - NaCount(Column(parsed, time_col))
         IN  IF valid_dates > 0
             THEN [df |-> sort_values(dropna(parsed, time_col), time_col),
                   time_col |-> time_col,
                   tried |-> FormatsTried(original_dates, current_year)]
             ELSE [df |-> MapColumn(parsed, time_col, original_dates),
                   time_col |-> time_col,
                   tried |-> FormatsTried(original_dates, current_year)]

\* lines 350-397: [df, time_col] after cleaning
CleanDates(df, time_col, current_year) ==
    IF time_col = None THEN [df |-> df, time_col |-> None, tried |-> {}]
    ELSE LET original_dates == Column(df, time_col)
             parsed == MapColumn(df, time_col, ParsedDates(original_dates, current_year))
             valid_dates == Len(df.rows) - NaCount(Column(parsed, time_col))
         IN  IF valid_dates > 0
             THEN [df |-> sort_values(dropna(parsed, time_col), time_col),
                   time_col |-> time_col,
                   tried |-> FormatsTried(original_dates, current_year)]
             ELSE [df |-> MapColumn(parsed, time_col, original_dates),
                   time_col |-> None,
                   tried |-> FormatsTried(original_dates, current_year)]

(***************************************************************************)
(* Classification and the schema record (upload_csv, lines 402-415).       *)
(***************************************************************************)
ClassifyAbove(unique_time_points) ==
    IF unique_time_points > TIME_SERIES_MIN THEN "TIME_SERIES" ELSE "SNAPSHOT"

Classify(unique_time_points) ==
    IF unique_time_points >= TIME_SERIES_MIN THEN "TIME_SERIES" ELSE "SNAPSHOT"

Enabled == <<"Enabled">>
Requires(found) == <<"Requires >=", PREDICT_MIN, " time points (found ", found, ")">>

PredictionReason(can_predict, unique_time_points) ==
    IF can_predict THEN Enabled ELSE Requires(unique_time_points)

CanPredict(data_type, unique_time_points) ==
    data_type = "TIME_SERIES" /\ unique_time_points >= PREDICT_MIN

MakeSchema(df, time_col, region_col, metric_cols) ==
    LET unique_time_points == IF time_col # None THEN nunique(Column(df, time_col)) ELSE 0
        data_type == Classify(unique_time_points)
        can_predict == CanPredict(data_type, unique_time_points)
    IN  [timeColumn |-> time_col,
         regionColumn |-> region_col,
         metricColumns |-> metric_cols,
         dataType |-> data_type,
         rowCount |-> Len(df.rows),
         canPredict |-> can_predict,
         predictionReason |-> PredictionReason(can_predict, unique_time_points)]

(***************************************************************************)
(* File names of the uploads.                                              *)
(***************************************************************************)
FileNames == {"Data A.csv", "notes.txt"}

EndsWithCsv(filename) == filename = "Data A.csv"

\* file.filename.replace('.csv', '').replace(' ', '_').lower()
FileId(filename) == IF filename = "Data A.csv" THEN "data_a" ELSE "notes.txt"

FileIds == {FileId(f) : f \in {g \in FileNames : EndsWithCsv(g)}}

(***************************************************************************)
(* The synchronous part of upload_csv, from validation to the schema       *)
(* record: what it would store, or the error it raises.                    *)
(***************************************************************************)
\* lines 341-415: the id, the inferred roles, the cleaned frame, the schema
Inferred(filename, raw, current_year) ==
    LET time_col0 == detect_time_column(raw)
        region_col == detect_region_column(raw)
        metric_cols == detect_metric_columns(raw, time_col0, region_col)
        cleaned == CleanDates(raw, time_col0, current_year)
    IN  [ok |-> TRUE,
         file_id |-> FileId(filename),
         filename |-> filename,
         df |-> cleaned.df,
         schema |-> MakeSchema(cleaned.df, cleaned.time_col, region_col, metric_cols),
         tried |-> cleaned.tried]

IngestWithoutEmptyCheck(filename, contents, current_year) ==
    IF ~EndsWithCsv(filename) THEN [ok |-> FALSE, status |-> 400]
    ELSE Inferred(filename, read_csv(contents), current_year)

Ingest(filename, contents, current_year) ==
    IF ~EndsWithCsv(filename) THEN [ok |-> FALSE, status |-> 400]
    ELSE LET raw == read_csv(contents)
         IN  IF contents.header = <<>>
             \* pd.read_csv raises on text without columns
             THEN [ok |-> FALSE, status |-> 500]
             ELSE IF raw.rows = <<>>
             \* the HTTPException(400) is caught by the handler's own except
             THEN [ok |-> FALSE, status |-> 500]
             ELSE Inferred(filename, raw, current_year)

(***************************************************************************)
(* The uploads of the model: a column layout, a pattern of time cells and  *)
(* a number of rows.                                                       *)
(***************************************************************************)
Layouts == {<<"Year", "State", "value">>, <<"label", "value">>, <<"state_date", "value">>}

Tapes == {"num", "iso", "cyc", "mixed", "isobad", "dmon", "leap", "mony", "text", "null",
          "numnan", "asc"}

Swap(i) == IF i % 2 = 1 THEN i + 1 ELSE i - 1

TapeCell(tape, i) ==
    CASE tape = "num"    -> Cell("int", Swap(i))
      [] tape = "iso"    -> Cell("iso", Swap(i))
      [] tape = "cyc"    -> Cell("iso", 1 + ((2 * i) % 3))
      [] tape = "mixed"  -> IF i % 2 = 1 THEN Cell("iso", Swap(i)) ELSE Cell("txt", i)
      [] tape = "isobad" -> IF i = 1 THEN Cell("iso", 1) ELSE Cell("txd", i)
      [] tape = "dmon"   -> Cell("dmon", Swap(i))
      [] tape = "leap"   -> IF i = 2 THEN Cell("dm29", 0) ELSE Cell("dmon", Swap(i))
      [] tape = "mony"   -> Cell("mony", Swap(i))
      [] tape = "text"   -> Cell("txt", i)
      [] tape = "null"   -> NaN
      [] tape = "numnan" -> IF i = 1 THEN Cell("int", 1) ELSE NaN
      [] tape = "asc"    -> Cell("iso", i)

MkCsv(layout, tape, n) ==
    [header |-> layout,
     lines |-> [i \in 1..n |->
                  [j \in DOMAIN layout |->
                     IF j = 1 THEN TapeCell(tape, i)
                     ELSE IF layout[j] = "State" THEN Cell("txt", 1 + (i % 2))
                     ELSE Cell("int", (2 * i) % 5)]]]

AllCsv == {MkCsv(layout, tape, n) : layout \in Layouts, tape \in Tapes, n \in 0..MaxRows}

\* a file without a header line
NoColumns == [header |-> <<>>, lines |-> <<>>]

\* the uploads the request model draws from: a file without columns, an
\* empty table, a series long enough to forecast, and a table whose time
\* column reverts
Uploads ==
    {NoColumns,
     MkCsv(<<"Year", "State", "value">>, "iso", 0),
     MkCsv(<<"Year", "State", "value">>, "iso", MaxRows),
     MkCsv(<<"Year", "State", "value">>, "text", TIME_SERIES_MIN)}

(***************************************************************************)
(* State.                                                                  *)
(*   uploaded_data, detected_schemas  the memory tables (Tier 1)           *)
(*   disk          data_storage/<file_id>.csv (Tier 2)                     *)
(*   db_datasets, db_storage, db_policies  the MongoDB collections         *)
(*                 "datasets", "file_storage", "policies" (Tier 3)         *)
(*   MONGO_URI     whether the environment variable is set                 *)
(*   client        Database.client                                         *)
(*   req           per worker, the request it runs and where it is         *)
(*                 suspended                                               *)
(*   resp          the response the last step returned, if it returned one *)
(*   uploads, restarts  counters that bound a behaviour                    *)
(* The tables are functions whose domain is the set of ids they hold.      *)
(***************************************************************************)
VARIABLES uploaded_data, detected_schemas, disk, db_datasets, db_storage,
          db_policies, MONGO_URI, client, req, resp, uploads, restarts

vars == <<uploaded_data, detected_schemas, disk, db_datasets, db_storage,
          db_policies, MONGO_URI, client, req, resp, uploads, restarts>>

tiers == <<uploaded_data, detected_schemas, disk, db_datasets, db_storage, db_policies>>

Workers == {1, 2}

Empty == [k \in {} |-> None]

PutIfAbsent(table, key, value) ==
    [k \in DOMAIN table \cup {key} |-> IF k \in DOMAIN table THEN table[k] ELSE value]

\* table[key] = value, and update_one(..., upsert=True) on a collection
Put(table, key, value) ==
    [k \in DOMAIN table \cup {key} |-> IF k = key THEN value ELSE table[k]]

Idle == [op |-> "idle", pc |-> "idle"]

NoResponse == [op |-> "none", pc |-> "done"]

Free(w) == req[w].pc = "idle"

\* a new request takes the first worker that runs none (the workers are
\* interchangeable)
Takes(w) == Free(w) /\ \A v \in Workers : v < w => ~Free(v)

\* worker w moves on to r: a suspended request, or the response it returns;
\* rest gives the other workers' requests
Continue(w, r, rest) ==
    /\ req' = [v \in Workers |-> IF v # w THEN rest[v]
                                  ELSE IF r.pc = "done" THEN Idle ELSE r]
    /\ resp' = IF r.pc = "done" THEN r ELSE NoResponse

AllWrites == {"meta", "disk", "blob"}

ReturnedUnlessWriteFailed(r, status) ==
    [op |-> r.op, pc |-> "done",
     status |-> IF r.persisted = AllWrites THEN status ELSE 500,
     file_id |-> r.file_id,
     persisted |-> r.persisted, overlapped |-> r.overlapped, replaced |-> r.replaced,
     tried |-> r.tried]

\* the response of an upload that got as far as the memory write
\* (UploadResponse, lines 448-455)
Returned(r, status) ==
    [op |-> r.op, pc |-> "done", status |-> status, file_id |-> r.file_id,
     persisted |-> r.persisted, overlapped |-> r.overlapped, replaced |-> r.replaced,
     tried |-> r.tried]

\* Database.get_db via get_collection: a missing client is created lazily
\* whenever MONGO_URI is set; None only without it
CollectionAvailable == client # None \/ MONGO_URI

ClientAfterGet == IF client = None /\ MONGO_URI THEN "client" ELSE client

(***************************************************************************)
(* get_or_load_dataframe: memory, then disk.  tier records which tier      *)
(* answered (0: none).                                                     *)
(***************************************************************************)
get_or_load_dataframe(file_id) ==
    IF file_id \in DOMAIN uploaded_data
    THEN [found |-> TRUE, df |-> uploaded_data[file_id], tier |-> 1]
    ELSE IF file_id \in DOMAIN disk
    THEN [found |-> TRUE, df |-> read_csv(disk[file_id]), tier |-> 2]
    ELSE [found |-> FALSE, tier |-> 0]

(***************************************************************************)
(* Init and process restart.                                               *)
(***************************************************************************)
Init ==
    /\ uploaded_data = Empty
    /\ detected_schemas = Empty
    /\ disk = Empty
    /\ db_datasets = Empty
    /\ db_storage = Empty
    /\ db_policies = Empty
    /\ MONGO_URI \in BOOLEAN
    /\ client \in (IF MONGO_URI THEN {None, "client"} ELSE {None})
    /\ req = [w \in Workers |-> Idle]
    /\ resp = NoResponse
    /\ uploads = 0
    /\ restarts = 0

\* the process ends and starts again: the module-level tables are created
\* empty, requests in flight are gone, connect_db pings the store
Restart ==
    /\ restarts < MaxRestarts
    /\ restarts' = restarts + 1
    /\ uploaded_data' = Empty
    /\ detected_schemas' = Empty
    /\ req' = [w \in Workers |-> Idle]
    /\ resp' = NoResponse
    /\ \E ping \in BOOLEAN : client' = IF MONGO_URI /\ ping THEN "client" ELSE None
    /\ UNCHANGED <<disk, db_datasets, db_storage, db_policies, MONGO_URI, uploads>>

(***************************************************************************)
(* upload_csv.  It suspends at file.read(), at the metadata upsert and at  *)
(* the blob upsert; between two suspensions it runs alone.  A request in   *)
(* flight carries its locals (df, schema) and three history fields:        *)
(*   persisted   the tier writes of this request that succeeded            *)
(*   latest      no later upload has assigned uploaded_data[file_id]       *)
(*   overlapped  another upload of the same id was between its memory      *)
(*               write and its return while this one was                   *)
(*   replaced    the memory write replaced a different dataset             *)
(*   tried       the date formats the cleaning ran over the time column    *)
(***************************************************************************)
InWindow(v) == req[v].op = "upload" /\ req[v].pc \in {"meta", "blob"}

DatasetMeta(r) ==
    [file_id |-> r.file_id,
     filename |-> r.filename,
     row_count |-> Len(r.df.rows),
     column_count |-> Len(r.df.columns),
     columns |-> r.df.columns,
     schema |-> r.schema]

StorageDoc(r) == [file_id |-> r.file_id, data |-> Compress(to_csv(r.df))]

Failed(op, status) == [op |-> op, pc |-> "done", status |-> status]


UploadBegin(w, filename, contents) ==
    /\ Takes(w)
    /\ uploads < MaxUploads
    /\ uploads' = uploads + 1
    /\ Continue(w, IF ~EndsWithCsv(filename) THEN Failed("upload", 400)
                   ELSE [op |-> "upload", pc |-> "read",
                         filename |-> filename, contents |-> contents], req)
    /\ UNCHANGED <<tiers, MONGO_URI, client, restarts>>

\* lines 324-431: decode, parse, infer, clean, assign the memory tables,
\* build the metadata and ask for the "datasets" collection
UploadProcess(w) ==
    /\ req[w].op = "upload" /\ req[w].pc = "read"
    /\ \E current_year \in Years :
       LET ing == Ingest(req[w].filename, req[w].contents, current_year)
       IN  IF ~ing.ok
           THEN /\ Continue(w, Failed("upload", ing.status), req)
                /\ UNCHANGED <<tiers, MONGO_URI, client, uploads, restarts>>
           ELSE LET id == ing.file_id
                    others == {v \in Workers \ {w} : InWindow(v) /\ req[v].file_id = id}
                    mine == [op |-> "upload", pc |-> "meta",
                             file_id |-> id, filename |-> ing.filename,
                             df |-> ing.df, schema |-> ing.schema,
                             persisted |-> {}, latest |-> TRUE,
                             overlapped |-> others # {},
                             replaced |-> id \in DOMAIN uploaded_data
                                          /\ uploaded_data[id] # ing.df,
                             tried |-> ing.tried]
                    seen == [v \in Workers |->
                               IF v \in others
                               THEN [req[v] EXCEPT !.latest = FALSE, !.overlapped = TRUE]
                               ELSE req[v]]
                IN  /\ uploaded_data' = Put(uploaded_data, id, ing.df)
                    /\ detected_schemas' = Put(detected_schemas, id, ing.schema)
                    /\ client' = ClientAfterGet
                    /\ IF CollectionAvailable
                       THEN /\ Continue(w, mine, seen)
                            /\ UNCHANGED disk
                       ELSE \* no collection: no suspension up to the return
                            \E disk_ok \in BOOLEAN :
                               /\ disk' = IF disk_ok THEN Put(disk, id, to_csv(ing.df)) ELSE disk
                               /\ Continue(w, Returned([mine EXCEPT !.persisted =
                                                 IF disk_ok THEN {"disk"} ELSE {}], 200), seen)
                    /\ UNCHANGED <<db_datasets, db_storage, db_policies, MONGO_URI,
                                   uploads, restarts>>

\* lines 433-446 and save_dataset_to_db up to its upsert: the metadata
\* upsert ends (or raises, and is absorbed), the CSV file is written (or
\* save_dataframe returns False), the blob upsert is issued
UploadMeta(w) ==
    /\ req[w].op = "upload" /\ req[w].pc = "meta"
    /\ \E meta_ok, disk_ok \in BOOLEAN :
          LET id == req[w].file_id
              done == (IF meta_ok THEN {"meta"} ELSE {}) \cup (IF disk_ok THEN {"disk"} ELSE {})
          IN  /\ db_datasets' = IF meta_ok THEN Put(db_datasets, id, DatasetMeta(req[w]))
                                ELSE db_datasets
              /\ disk' = IF disk_ok THEN Put(disk, id, to_csv(req[w].df)) ELSE disk
              /\ client' = ClientAfterGet
              /\ Continue(w, IF CollectionAvailable
                               THEN [req[w] EXCEPT !.pc = "blob", !.persisted = done]
                               ELSE Returned([req[w] EXCEPT !.persisted = done], 200), req)
    /\ UNCHANGED <<uploaded_data, detected_schemas, db_storage, db_policies, MONGO_URI,
                   uploads, restarts>>

\* save_dataset_to_db lines 73-84 and the return of upload_csv
UploadBlob(w) ==
    /\ req[w].op = "upload" /\ req[w].pc = "blob"
    /\ \E blob_ok \in BOOLEAN :
          /\ db_storage' = IF blob_ok THEN Put(db_storage, req[w].file_id, StorageDoc(req[w]))
                           ELSE db_storage
          /\ Continue(w, Returned([req[w] EXCEPT !.persisted =
                                    @ \cup (IF blob_ok THEN {"blob"} ELSE {})], 200), req)
    /\ UNCHANGED <<uploaded_data, detected_schemas, disk, db_datasets, db_policies,
                   MONGO_URI, client, uploads, restarts>>

(***************************************************************************)
(* The query handlers that run without suspending: get_stats, get_trends,  *)
(* get_predictions, get_data, get_regions, chat_with_data.                 *)
(***************************************************************************)
QueryOps == {"stats", "trends", "predict", "data", "regions", "chat"}

ForecastPeriods == {1, 2}

HasColumns(df, cols) == cols \subseteq Range(df.columns)

\* what perform_linear_regression labels its forecasts
ForecastLabels(forecast_periods) ==
    [i \in 1..forecast_periods |-> <<"Forecast ", i>>]

Answer(op, file_id, status, tier) ==
    [op |-> op, pc |-> "done", status |-> status, file_id |-> file_id, tier |-> tier]

PredictionResponse(file_id, tier, canPredict, reason, engine, historical, predictions) ==
    [op |-> "predict", pc |-> "done", status |-> 200, file_id |-> file_id, tier |-> tier,
     canPredict |-> canPredict, reason |-> reason, engine |-> engine,
     historical |-> historical, predictions |-> predictions]

\* df[col].dropna() as numbers
NonNull(df, col) ==
    LET present == SelectSeq(Column(df, col), LAMBDA c : ~IsNull(c))
    IN  [k \in DOMAIN present |-> present[k].v]

\* lines 551-556: the growth of a metric from its first to its last value,
\* a fraction num / den of per cent, or None (none)
GrowthRate(dataType, values) ==
    IF dataType = "TIME_SERIES" /\ Len(values) >= 2 /\ values[1] # 0
    THEN [none |-> FALSE, num |-> (values[Len(values)] - values[1]) * 100,
          den |-> values[1]]
    ELSE [none |-> TRUE, num |-> 0, den |-> 1]

\* line 565: round(growth_rate, 2) if growth_rate else None; a float is
\* truthy unless it is 0
ReportedGrowthRate(growth_rate) ==
    IF ~growth_rate.none /\ growth_rate.num # 0
    THEN Float2(RoundDiv(growth_rate.num * 100, growth_rate.den))
    ELSE Null

StatsAnswer(file_id, tier, results) ==
    [op |-> "stats", pc |-> "done", status |-> 200, file_id |-> file_id, tier |-> tier,
     stats |-> results]

\* [column] if column else schema["metricColumns"]
ColumnsToAnalyze(schema, column) ==
    IF column # None THEN <<column>> ELSE schema.metricColumns

\* get_stats after its lookups (lines 541-569); of each result the column,
\* growthRate and dataPoints.  float() of the least value of a column of
\* text or timestamps raises (line 560).
Stats(file_id, loaded, column) ==
    LET schema == detected_schemas[file_id]
        columns_to_analyze == SelectSeq(ColumnsToAnalyze(schema, column),
                                        LAMBDA col : col \in Range(loaded.df.columns))
    IN  IF \E k \in DOMAIN columns_to_analyze :
              ~is_numeric_dtype(loaded.df, columns_to_analyze[k])
        THEN Answer("stats", file_id, 500, loaded.tier)
        ELSE
        StatsAnswer(file_id, loaded.tier,
           [k \in DOMAIN columns_to_analyze |->
              LET col == columns_to_analyze[k]
                  values == NonNull(loaded.df, col)
              IN  [column |-> col,
                   growthRate |-> ReportedGrowthRate(GrowthRate(schema.dataType, values)),
                   dataPoints |-> Len(values)]])

\* Series.sum() of a group: empty fields count for nothing
NumberOf(c) == IF c.k = "int" THEN c.v ELSE 0

\* df.groupby(by)[metric].sum().reset_index(): one row for each distinct
\* non-null value of by, in ascending order of that value
GroupedSums(df, by, metric) ==
    LET keys == {c \in Range(Column(df, by)) : ~IsNull(c)}
        total(key) == Sum([i \in 1..Len(df.rows) |->
                             IF df.rows[i][by] = key THEN NumberOf(df.rows[i][metric])
                             ELSE 0])
        place(key) == 1 + Cardinality({c \in keys : c.v < key.v})
    IN  [n \in 1..Cardinality(keys) |->
            LET key == CHOOSE c \in keys : place(c) = n
            IN  [key |-> key, sum |-> total(key)]]

\* sort_values(by=metric, ascending=False): rows of equal sum are kept in
\* the order they had
SortDescending(grouped) ==
    LET n == Len(grouped)
        place(i) == 1 + Cardinality({j \in 1..n :
                                       \/ grouped[j].sum > grouped[i].sum
                                       \/ grouped[j].sum = grouped[i].sum /\ j < i})
    IN  [m \in 1..n |-> grouped[CHOOSE i \in 1..n : place(i) = m]]

HeadAll(rows, n) == rows

\* DataFrame.head(n)
Head_(rows, n) == SubSeq(rows, 1, Min(n, Len(rows)))

\* lines 589-600: the ranking of a snapshot dataset
SnapshotRanking(df, cat_col, target_metric) ==
    LET df_grouped == Head_(SortDescending(GroupedSums(df, cat_col, target_metric)), TOP_N)
    IN  [n \in DOMAIN df_grouped |->
            [period |-> df_grouped[n].key, value |-> df_grouped[n].sum,
             movingAvg |-> Null, growthRate |-> Null]]

\* metric if metric and metric in schema["metricColumns"] else
\* schema["metricColumns"][0], for a schema with a metric
MetricOrFirst(schema, metric) ==
    IF metric # None /\ metric \in Range(schema.metricColumns) THEN metric
    ELSE schema.metricColumns[1]

\* df[df[region_col] == region]
FilterRegion(df, region_col, region) ==
    [df EXCEPT !.rows = SelectSeq(df.rows, LAMBDA row : row[region_col] = region)]

\* df[[time_col, metric_col]].copy(): the rows as they are, one entry each
Ungrouped(df, time_col, metric_col) ==
    [i \in DOMAIN df.rows |->
        [key |-> df.rows[i][time_col], sum |-> NumberOf(df.rows[i][metric_col])]]

\* line 616: schema["regionColumn"] and not region
GroupsByTime(regionColumn, region) == regionColumn # None /\ region = Null

\* lines 616-622: the (period, value) series of a dataset with a time
\* column
TimeSeries(df, schema, metric_col, region) ==
    IF GroupsByTime(schema.regionColumn, region)
    THEN GroupedSums(df, schema.timeColumn, metric_col)
    ELSE Ungrouped(df, schema.timeColumn, metric_col)

\* lines 624-634: the entries of the series with its moving averages and
\* growth rates
TrendResults(trend_df) ==
    LET values == [i \in DOMAIN trend_df |-> trend_df[i].sum]
        moving_avgs == calculate_moving_average(values, WINDOW)
        growth_rates == calculate_growth_rates(values)
    IN  [i \in DOMAIN trend_df |->
            [period |-> trend_df[i].key, value |-> Float2(100 * values[i]),
             movingAvg |-> moving_avgs[i], growthRate |-> growth_rates[i]]]

TrendAnswer(file_id, tier, metric, data) ==
    [op |-> "trends", pc |-> "done", status |-> 200, file_id |-> file_id, tier |-> tier,
     metric |-> metric, data |-> data]

\* get_trends after its lookups (lines 580-640); region is Null when the
\* request names none
Trends(file_id, loaded, metric, region) ==
    LET schema == detected_schemas[file_id]
        used == {schema.timeColumn, schema.regionColumn} \ {None}
    IN  IF schema.timeColumn = None /\ schema.regionColumn = None
        THEN Answer("trends", file_id, 400, loaded.tier)
        ELSE IF schema.metricColumns = <<>>
                \/ ~HasColumns(loaded.df, used \cup {MetricOrFirst(schema, metric)})
        THEN Answer("trends", file_id, 500, loaded.tier)
        ELSE IF schema.timeColumn = None
        THEN TrendAnswer(file_id, loaded.tier, MetricOrFirst(schema, metric),
                         SnapshotRanking(loaded.df, schema.regionColumn,
                                         MetricOrFirst(schema, metric)))
        ELSE LET df == IF region # Null /\ schema.regionColumn # None
                       THEN FilterRegion(loaded.df, schema.regionColumn, region)
                       ELSE loaded.df
                 metric_col == MetricOrFirst(schema, metric)
             IN  TrendAnswer(file_id, loaded.tier, metric_col,
                             TrendResults(TimeSeries(df, schema, metric_col, region)))

GatedByDataType(file_id, loaded, metric, periods) ==
    LET schema == detected_schemas[file_id]
    IN  IF schema.dataType # "TIME_SERIES"
        THEN PredictionResponse(file_id, loaded.tier, FALSE, schema.predictionReason,
                                FALSE, <<>>, <<>>)
        ELSE PredictionResponse(file_id, loaded.tier, TRUE,
                                "Prediction enabled with sufficient data points",
                                TRUE, <<>>, ForecastLabels(periods))

\* get_predictions after its lookups (lines 651-694); the regression of a
\* series of fewer than 2 points raises
Predict(file_id, loaded, metric, periods) ==
    LET schema == detected_schemas[file_id]
    IN  IF ~schema.canPredict
        THEN PredictionResponse(file_id, loaded.tier, FALSE, schema.predictionReason,
                                FALSE, <<>>, <<>>)
        ELSE IF schema.metricColumns = <<>>
                \/ ~HasColumns(loaded.df, {schema.timeColumn, MetricOrFirst(schema, metric)})
        THEN Answer("predict", file_id, 500, loaded.tier)
        ELSE LET metric_col == MetricOrFirst(schema, metric)
                 agg_df == IF schema.regionColumn # None
                           THEN GroupedSums(loaded.df, schema.timeColumn, metric_col)
                           ELSE Ungrouped(loaded.df, schema.timeColumn, metric_col)
                 time_indices == [i \in DOMAIN agg_df |-> i]
                 values == [i \in DOMAIN agg_df |-> agg_df[i].sum]
             IN  IF Len(values) < 2 THEN Answer("predict", file_id, 500, loaded.tier)
                 ELSE PredictionResponse(file_id, loaded.tier, TRUE,
                         "Prediction enabled with sufficient data points", TRUE,
                         [i \in DOMAIN agg_df |->
                            [period |-> agg_df[i].key, value |-> Float2(100 * values[i])]],
                         perform_linear_regression(time_indices, values,
                                                   periods).predictions)

\* get_regions after its lookups (lines 814-818); sorted() of names with an
\* empty field among them raises TypeError
Regions(file_id, loaded) ==
    LET schema == detected_schemas[file_id]
    IN  IF schema.regionColumn = None
        THEN [op |-> "regions", pc |-> "done", status |-> 200, file_id |-> file_id,
              tier |-> loaded.tier, regions |-> {}]
        ELSE IF ~HasColumns(loaded.df, {schema.regionColumn})
        THEN Answer("regions", file_id, 500, loaded.tier)
        ELSE LET regions == Range(Column(loaded.df, schema.regionColumn))
             IN  IF \E a, b \in regions : IsStr(a) /\ ~IsStr(b)
                 THEN Answer("regions", file_id, 500, loaded.tier)
                 ELSE [op |-> "regions", pc |-> "done", status |-> 200,
                       file_id |-> file_id, tier |-> loaded.tier, regions |-> regions]

\* the response of a query handler: 404 when get_or_load_dataframe finds
\* nothing; detected_schemas[file_id] raises KeyError (500) when the id
\* has no schema in memory.  chat_with_data calls get_stats without a
\* column.
QueryResponse(op, file_id, metric, region, periods) ==
    LET loaded == get_or_load_dataframe(file_id)
    IN  IF ~loaded.found THEN Answer(op, file_id, 404, 0)
        ELSE IF op = "data" THEN Answer(op, file_id, 200, loaded.tier)
        ELSE IF file_id \notin DOMAIN detected_schemas
        THEN Answer(op, file_id, 500, loaded.tier)
        ELSE IF op = "predict" THEN Predict(file_id, loaded, metric, periods)
        ELSE IF op = "trends" THEN Trends(file_id, loaded, metric, region)
        ELSE IF op = "stats" THEN Stats(file_id, loaded, metric)
        ELSE IF op = "regions" THEN Regions(file_id, loaded)
        ELSE Answer(op, file_id, Stats(file_id, loaded, None).status, loaded.tier)

\* asked: the metric and region arguments of the request
Query(w, op, file_id, metric, region, periods) ==
    /\ Takes(w)
    /\ Continue(w, QueryResponse(op, file_id, metric, region, periods)
                      @@ [asked |-> [metric |-> metric, region |-> region]], req)
    /\ UNCHANGED <<tiers, MONGO_URI, client, uploads, restarts>>

(***************************************************************************)
(* get_schema: memory, then the "datasets" collection (a suspension), then *)
(* the disk path.                                                          *)
(***************************************************************************)
SchemaAnswer(file_id, schema, source) ==
    [op |-> "schema", pc |-> "done", status |-> 200, file_id |-> file_id,
     schema |-> schema, source |-> source]

\* lines 513-520
SchemaFromDisk(file_id, schemas) ==
    IF get_or_load_dataframe(file_id).found /\ file_id \in DOMAIN schemas
    THEN SchemaAnswer(file_id, schemas[file_id], "memory")
    ELSE Answer("schema", file_id, 404, 0)

SchemaBegin(w, file_id) ==
    /\ Takes(w)
    /\ IF file_id \in DOMAIN detected_schemas
       THEN /\ Continue(w, SchemaAnswer(file_id, detected_schemas[file_id], "memory"), req)
            /\ UNCHANGED client
       ELSE /\ client' = ClientAfterGet
            /\ Continue(w, IF CollectionAvailable
                            THEN [op |-> "schema", pc |-> "find", file_id |-> file_id]
                            ELSE SchemaFromDisk(file_id, detected_schemas), req)
    /\ UNCHANGED <<tiers, MONGO_URI, uploads, restarts>>

SchemaFind(w) ==
    /\ req[w].op = "schema" /\ req[w].pc = "find"
    /\ \E find_ok \in BOOLEAN :
          LET id == req[w].file_id
          IN  IF find_ok /\ id \in DOMAIN db_datasets
              THEN /\ detected_schemas' = Put(detected_schemas, id, db_datasets[id].schema)
                   /\ Continue(w, SchemaAnswer(id, db_datasets[id].schema, "db"), req)
              ELSE /\ Continue(w, SchemaFromDisk(id, detected_schemas), req)
                   /\ UNCHANGED detected_schemas
    /\ UNCHANGED <<uploaded_data, disk, db_datasets, db_storage, db_policies, MONGO_URI,
                   client, uploads, restarts>>

(***************************************************************************)
(* get_history: up to 15 rounds of get_collection, the listing query and   *)
(* a one-second sleep.                                                     *)
(***************************************************************************)
\* find({}, projection).sort("upload_timestamp", -1).limit(20)
Listing ==
    LET ids == DOMAIN db_datasets
        Project(id) == [file_id |-> db_datasets[id].file_id,
                        filename |-> db_datasets[id].filename,
                        row_count |-> db_datasets[id].row_count,
                        column_count |-> db_datasets[id].column_count]
    IN  IF ids = {} THEN <<>> ELSE <<Project(CHOOSE id \in ids : TRUE)>>

HistoryAnswer(history, attempts, queries, sleeps, gave_up) ==
    [op |-> "history", pc |-> "done", status |-> 200, history |-> history,
     attempts |-> attempts, queries |-> queries, sleeps |-> sleeps, gave_up |-> gave_up]

HistoryBegin(w) ==
    /\ Takes(w)
    /\ \A v \in Workers : req[v].op # "history"
    /\ Continue(w, [op |-> "history", pc |-> "attempt", attempt |-> 0, queries |-> 0], req)
    /\ UNCHANGED <<tiers, MONGO_URI, client, uploads, restarts>>

RangeAttemptsOneMore == HISTORY_ATTEMPTS + 1

\* range(15)
RangeAttempts == HISTORY_ATTEMPTS

\* one round of the loop, lines 468-484
HistoryAttempt(w) ==
    /\ req[w].op = "history" /\ req[w].pc = "attempt"
    /\ client' = ClientAfterGet
    /\ \E query_ok \in BOOLEAN :
          LET r == req[w]
              asked == IF CollectionAvailable THEN r.queries + 1 ELSE r.queries
          IN  Continue(w, IF CollectionAvailable /\ query_ok
                          THEN HistoryAnswer(Listing, r.attempt + 1, asked, r.attempt, FALSE)
                          ELSE IF r.attempt + 1 < RangeAttempts
                          THEN [r EXCEPT !.attempt = @ + 1, !.queries = asked]
                          ELSE HistoryAnswer(<<>>, r.attempt + 1, asked, r.attempt + 1, TRUE),
                      req)
    /\ UNCHANGED <<tiers, MONGO_URI, uploads, restarts>>

(***************************************************************************)
(* get_policies: the cached document (a find_one outside any try), the     *)
(* generation, the upsert of an AI result.                                 *)
(***************************************************************************)
PolicyAnswer(file_id, status, recommendations, error) ==
    [op |-> "policies", pc |-> "done", status |-> status, file_id |-> file_id,
     recommendations |-> recommendations, error |-> error]

\* lines 709-733: load, stats over the schema's metric columns, generation;
\* ai says whether generate_ai_recommendations returned AI output
PoliciesGenerated(file_id, ai, can_save) ==
    LET loaded == get_or_load_dataframe(file_id)
        metric_cols == IF file_id \in DOMAIN detected_schemas
                       THEN Range(detected_schemas[file_id].metricColumns) ELSE {}
    IN  IF ~loaded.found THEN PolicyAnswer(file_id, 404, "none", "File not found")
        ELSE IF ~HasColumns(loaded.df, metric_cols)
        THEN PolicyAnswer(file_id, 500, "none", "KeyError")
        ELSE IF ai /\ can_save THEN [op |-> "policies", pc |-> "save", file_id |-> file_id]
        ELSE PolicyAnswer(file_id, 200, IF ai THEN "ai" ELSE "rules", "none")

PoliciesBegin(w, file_id) ==
    /\ Takes(w)
    /\ client' = ClientAfterGet
    /\ \E ai \in BOOLEAN :
          Continue(w, IF CollectionAvailable
                      THEN [op |-> "policies", pc |-> "find", file_id |-> file_id]
                      ELSE PoliciesGenerated(file_id, ai, FALSE), req)
    /\ UNCHANGED <<tiers, MONGO_URI, uploads, restarts>>


\* lines 704-707: the find_one result, or its exception reaching the caller
PoliciesFound(file_id, find_ok, ai) ==
    IF ~find_ok THEN PolicyAnswer(file_id, 500, "none", "store")
    ELSE IF file_id \in DOMAIN db_policies
    THEN PolicyAnswer(file_id, 200, db_policies[file_id].recommendations, "none")
    ELSE PoliciesGenerated(file_id, ai, TRUE)

PoliciesFind(w) ==
    /\ req[w].op = "policies" /\ req[w].pc = "find"
    /\ \E find_ok, ai \in BOOLEAN :
          Continue(w, PoliciesFound(req[w].file_id, find_ok, ai), req)
    /\ UNCHANGED <<tiers, MONGO_URI, client, uploads, restarts>>

\* lines 746-759: the upsert, or the rule-based fallback when it raises
PoliciesSave(w) ==
    /\ req[w].op = "policies" /\ req[w].pc = "save"
    /\ \E save_ok \in BOOLEAN :
          LET id == req[w].file_id
          IN  /\ db_policies' = IF save_ok
                                THEN Put(db_policies, id,
                                         [file_id |-> id, recommendations |-> "ai"])
                                ELSE db_policies
              /\ Continue(w, PolicyAnswer(id, 200, IF save_ok THEN "ai" ELSE "rules", "none"),
                          req)
    /\ UNCHANGED <<uploaded_data, detected_schemas, disk, db_datasets, db_storage,
                   MONGO_URI, client, uploads, restarts>>

(***************************************************************************)
(* The request model: two workers, uploads drawn from Uploads, the         *)
(* handlers that read and write datasets and schemas.                      *)
(***************************************************************************)
Next ==
    \/ \E w \in Workers, filename \in FileNames, contents \in Uploads :
          UploadBegin(w, filename, contents)
    \/ \E w \in Workers : UploadProcess(w)
    \/ \E w \in Workers : UploadMeta(w)
    \/ \E w \in Workers : UploadBlob(w)
    \/ \E w \in Workers, op \in QueryOps, file_id \in FileIds, periods \in ForecastPeriods :
          Query(w, op, file_id, None, Null, periods)
    \/ \E w \in Workers, file_id \in FileIds : SchemaBegin(w, file_id)
    \/ \E w \in Workers : SchemaFind(w)
    \/ Restart

Spec == Init /\ [][Next]_vars

(***************************************************************************)
(* Ingestions alone: the upload handler on two workers, and restarts.      *)
(***************************************************************************)
NextUploads ==
    \/ \E w \in Workers, filename \in FileNames, contents \in Uploads :
          UploadBegin(w, filename, contents)
    \/ \E w \in Workers : UploadProcess(w)
    \/ \E w \in Workers : UploadMeta(w)
    \/ \E w \in Workers : UploadBlob(w)
    \/ Restart

SpecUploads == Init /\ [][NextUploads]_vars

(***************************************************************************)
(* One ingestion of any table of AllCsv, then queries, schema reads and    *)
(* restarts.                                                               *)
(***************************************************************************)
InitIngest ==
    /\ uploaded_data = Empty
    /\ detected_schemas = Empty
    /\ disk = Empty
    /\ db_datasets = Empty
    /\ db_storage = Empty
    /\ db_policies = Empty
    /\ MONGO_URI \in BOOLEAN
    /\ client = None
    /\ \E contents \in AllCsv :
          req = [w \in Workers |->
                   IF w = 1 THEN [op |-> "upload", pc |-> "read",
                                  filename |-> "Data A.csv", contents |-> contents]
                   ELSE Idle]
    /\ resp = NoResponse
    /\ uploads = 1
    /\ restarts = 0

NextIngest ==
    \/ \E w \in Workers : UploadProcess(w)
    \/ \E w \in Workers : UploadMeta(w)
    \/ \E w \in Workers : UploadBlob(w)
    \/ \E w \in Workers, op \in QueryOps, file_id \in FileIds, periods \in ForecastPeriods :
          Query(w, op, file_id, None, Null, periods)
    \/ \E w \in Workers, file_id \in FileIds : SchemaBegin(w, file_id)
    \/ \E w \in Workers : SchemaFind(w)
    \/ Restart

SpecIngest == InitIngest /\ [][NextIngest]_vars

(***************************************************************************)
(* The handlers that talk to the durable store beyond the dataset itself:  *)
(* history and policies, beside uploads and schema reads.                  *)
(***************************************************************************)
NextStore ==
    \/ \E w \in Workers, filename \in FileNames, contents \in Uploads :
          UploadBegin(w, filename, contents)
    \/ \E w \in Workers : UploadProcess(w)
    \/ \E w \in Workers : UploadMeta(w)
    \/ \E w \in Workers : UploadBlob(w)
    \/ \E w \in Workers, file_id \in FileIds : SchemaBegin(w, file_id)
    \/ \E w \in Workers : SchemaFind(w)
    \/ \E w \in Workers : HistoryBegin(w)
    \/ \E w \in Workers : HistoryAttempt(w)
    \/ \E w \in Workers, file_id \in FileIds : PoliciesBegin(w, file_id)
    \/ \E w \in Workers : PoliciesFind(w)
    \/ \E w \in Workers : PoliciesSave(w)
    \/ Restart

SpecStore == Init /\ [][NextStore]_vars

(***************************************************************************)
(* The history listing beside ingestions.                                  *)
(***************************************************************************)
NextHistory ==
    \/ \E w \in Workers, filename \in FileNames, contents \in Uploads :
          UploadBegin(w, filename, contents)
    \/ \E w \in Workers : UploadProcess(w)
    \/ \E w \in Workers : UploadMeta(w)
    \/ \E w \in Workers : UploadBlob(w)
    \/ \E w \in Workers : HistoryBegin(w)
    \/ \E w \in Workers : HistoryAttempt(w)

SpecHistory == Init /\ [][NextHistory]_vars

(***************************************************************************)
(* The same file uploaded twice in a row: the second upload is processed   *)
(* once the first has returned.                                            *)
(***************************************************************************)
InitTwice ==
    /\ uploaded_data = Empty
    /\ detected_schemas = Empty
    /\ disk = Empty
    /\ db_datasets = Empty
    /\ db_storage = Empty
    /\ db_policies = Empty
    /\ MONGO_URI \in BOOLEAN
    /\ client = None
    /\ \E contents \in AllCsv :
          req = [w \in Workers |-> [op |-> "upload", pc |-> "read",
                                    filename |-> "Data A.csv", contents |-> contents]]
    /\ resp = NoResponse
    /\ uploads = 2
    /\ restarts = 0

InTurn(w) == \A v \in Workers : v < w => Free(v)

NextTwice ==
    \/ \E w \in Workers : InTurn(w) /\ UploadProcess(w)
    \/ \E w \in Workers : UploadMeta(w)
    \/ \E w \in Workers : UploadBlob(w)

SpecTwice == InitTwice /\ [][NextTwice]_vars

(***************************************************************************)
(* Rankings: one ingestion of a table of regions and values that has no    *)
(* time column, then trend requests.  A table of r regions has r + 2 rows, *)
(* so that two regions own two rows.                                       *)
(***************************************************************************)
Patterns == {"flat", "up", "mod", "gap", "anon"}

RankingCell(pattern, i) ==
    CASE pattern = "flat" -> Cell("int", 1)
      [] pattern = "up"   -> Cell("int", i)
      [] pattern = "mod"  -> Cell("int", ((7 * i) % 11) - 3)
      [] pattern = "gap"  -> IF i % 3 = 0 THEN NaN ELSE Cell("int", i)
      [] pattern = "anon" -> Cell("int", (3 * i) % 7)

MkRanking(regions, pattern) ==
    [header |-> <<"State", "value">>,
     lines |-> [i \in 1..(regions + 2) |->
                  <<IF pattern = "anon" /\ i = 1 THEN NaN
                    ELSE Cell("txt", 1 + (i % regions)),
                    RankingCell(pattern, i)>>]]

RankingCsv == {MkRanking(regions, pattern) : regions \in 1..MaxRegions, pattern \in Patterns}

InitRanking ==
    /\ uploaded_data = Empty
    /\ detected_schemas = Empty
    /\ disk = Empty
    /\ db_datasets = Empty
    /\ db_storage = Empty
    /\ db_policies = Empty
    /\ MONGO_URI \in BOOLEAN
    /\ client = None
    /\ \E contents \in RankingCsv :
          req = [w \in Workers |->
                   IF w = 1 THEN [op |-> "upload", pc |-> "read",
                                  filename |-> "Data A.csv", contents |-> contents]
                   ELSE Idle]
    /\ resp = NoResponse
    /\ uploads = 1
    /\ restarts = 0

NextRanking ==
    \/ \E w \in Workers : UploadProcess(w)
    \/ \E w \in Workers : UploadMeta(w)
    \/ \E w \in Workers : UploadBlob(w)
    \/ \E w \in Workers, file_id \in FileIds, periods \in ForecastPeriods :
          Query(w, "trends", file_id, None, Null, periods)

SpecRanking == InitRanking /\ [][NextRanking]_vars

(***************************************************************************)
(* The series helpers on their own: one call of one helper on any series   *)
(* of Series.                                                              *)
(***************************************************************************)
Values == {0 - 2, 0, 1, 3}

Series == UNION {[1..n -> Values] : n \in 0..MaxLen}

Result(op, values, result) ==
    [op |-> op, pc |-> "done", values |-> values, result |-> result]

CallMovingAverage(w) ==
    /\ req[w].op = "moving_average" /\ req[w].pc = "call"
    /\ Continue(w, Result("moving_average", req[w].values,
                          calculate_moving_average(req[w].values, WINDOW)), req)
    /\ UNCHANGED <<tiers, MONGO_URI, client, uploads, restarts>>

CallGrowthRates(w) ==
    /\ req[w].op = "growth_rates" /\ req[w].pc = "call"
    /\ Continue(w, Result("growth_rates", req[w].values,
                          calculate_growth_rates(req[w].values)), req)
    /\ UNCHANGED <<tiers, MONGO_URI, client, uploads, restarts>>

InitSeries ==
    /\ uploaded_data = Empty
    /\ detected_schemas = Empty
    /\ disk = Empty
    /\ db_datasets = Empty
    /\ db_storage = Empty
    /\ db_policies = Empty
    /\ MONGO_URI = FALSE
    /\ client = None
    /\ \E op \in {"moving_average", "growth_rates"}, values \in Series :
          req = [w \in Workers |->
                   IF w = 1 THEN [op |-> op, pc |-> "call", values |-> values] ELSE Idle]
    /\ resp = NoResponse
    /\ uploads = 0
    /\ restarts = 0

NextSeries ==
    \/ \E w \in Workers : CallMovingAverage(w)
    \/ \E w \in Workers : CallGrowthRates(w)

SpecSeries == InitSeries /\ [][NextSeries]_vars

(***************************************************************************)
(* The regression on its own: one call on a series of 2..MaxLen values at  *)
(* the indices 1..n the forecast endpoint passes, for a horizon of         *)
(* 1..MaxHorizon.                                                          *)
(***************************************************************************)
CallRegression(w) ==
    /\ req[w].op = "regression" /\ req[w].pc = "call"
    /\ Continue(w, [op |-> "regression", pc |-> "done",
                    values |-> req[w].values, periods |-> req[w].periods,
                    result |-> perform_linear_regression(
                                  [i \in 1..Len(req[w].values) |-> i],
                                  req[w].values, req[w].periods)], req)
    /\ UNCHANGED <<tiers, MONGO_URI, client, uploads, restarts>>

InitForecast ==
    /\ uploaded_data = Empty
    /\ detected_schemas = Empty
    /\ disk = Empty
    /\ db_datasets = Empty
    /\ db_storage = Empty
    /\ db_policies = Empty
    /\ MONGO_URI = FALSE
    /\ client = None
    /\ \E values \in {v \in Series : Len(v) >= 2}, periods \in 1..MaxHorizon :
          req = [w \in Workers |->
                   IF w = 1 THEN [op |-> "regression", pc |-> "call",
                                  values |-> values, periods |-> periods]
                   ELSE Idle]
    /\ resp = NoResponse
    /\ uploads = 0
    /\ restarts = 0

NextForecast == \E w \in Workers : CallRegression(w)

SpecForecast == InitForecast /\ [][NextForecast]_vars

(***************************************************************************)
(* The analytics handlers with their optional arguments: one upload, then  *)
(* any query with any metric, region and horizon of the sets below.        *)
(***************************************************************************)
AnalyticsLayouts == Layouts \cup {<<"label", "State">>}

AnalyticsTapes == {"asc", "cyc", "text", "num", "numnan"}

AnalyticsCsv ==
    {MkCsv(layout, tape, n) : layout \in AnalyticsLayouts, tape \in AnalyticsTapes,
                              n \in 1..MaxRows}

\* the metric argument: absent, a metric, a column that is none, the time
\* column of a layout, no column at all
MetricArgs == {None, "value", "State", "label", "nope"}

\* the region argument: absent, a region of the uploads, an unknown one
RegionArgs == {Null, Cell("txt", 1), Cell("txt", 9)}

InitAnalytics ==
    /\ uploaded_data = Empty
    /\ detected_schemas = Empty
    /\ disk = Empty
    /\ db_datasets = Empty
    /\ db_storage = Empty
    /\ db_policies = Empty
    /\ MONGO_URI = FALSE
    /\ client = None
    /\ \E contents \in AnalyticsCsv :
          req = [w \in Workers |->
                   IF w = 1 THEN [op |-> "upload", pc |-> "read",
                                  filename |-> "Data A.csv", contents |-> contents]
                   ELSE Idle]
    /\ resp = NoResponse
    /\ uploads = 1
    /\ restarts = 0

NextAnalytics ==
    \/ \E w \in Workers : UploadProcess(w)
    \/ \E w \in Workers, file_id \in FileIds, metric \in MetricArgs :
          Query(w, "stats", file_id, metric, Null, 1)
    \/ \E w \in Workers, file_id \in FileIds, metric \in MetricArgs, region \in RegionArgs :
          Query(w, "trends", file_id, metric, region, 1)
    \/ \E w \in Workers, file_id \in FileIds, metric \in MetricArgs,
          periods \in ForecastPeriods :
          Query(w, "predict", file_id, metric, Null, periods)
    \/ \E w \in Workers, op \in {"data", "regions", "chat"}, file_id \in FileIds :
          Query(w, op, file_id, None, Null, 1)

SpecAnalytics == InitAnalytics /\ [][NextAnalytics]_vars

(***************************************************************************)
(* Properties.                                                             *)
(***************************************************************************)
Tier1(file_id) == file_id \in DOMAIN uploaded_data
Tier2(file_id) == file_id \in DOMAIN disk
Tier3(file_id) == file_id \in DOMAIN db_storage

\* C1: a dataset read that misses the memory table and is answered from the
\* disk file or the durable store leaves the id in the memory table when it
\* returns.
C1_BackPopulated ==
    (resp.op \in QueryOps /\ resp.tier \in {2, 3}) => Tier1(resp.file_id)

\* C2: a query fails with 404 exactly when its id is in none of the three
\* tiers; a dataset held only by the durable store is resolved.
C2_NotFoundIffAbsent ==
    resp.op \in QueryOps =>
        (resp.status = 404 <=>
            ~(Tier1(resp.file_id) \/ Tier2(resp.file_id) \/ Tier3(resp.file_id)))

\* worker w returns from upload_csv in this step, past the memory write
UploadReturns(w) ==
    /\ req[w].op = "upload" /\ req[w].pc \in {"meta", "blob"}
    /\ req'[w] = Idle
    /\ resp'.op = "upload"

C4_OneIngestionInFlight ==
    \A v, w \in Workers :
        (v # w /\ InWindow(v) /\ InWindow(w)) => req[v].file_id # req[w].file_id

ErrorOf(r) == IF "error" \in DOMAIN r THEN r.error ELSE "none"

\* C6: no response of upload, history, schema or policies is the error of a
\* failed durable-store operation.
C6_StoreFailuresAbsorbed ==
    resp.op \in {"upload", "history", "schema", "policies"} => ErrorOf(resp) # "store"

\* C7 as stated: an empty history is returned only after all 15 attempts
\* failed.
C7_EmptyOnlyAfterAllFailed ==
    (resp.op = "history" /\ resp.history = <<>>) =>
        (resp.attempts = 15 /\ resp.sleeps = 15)

\* C7 as amended: get_history runs at most 15 rounds and 15 listing queries,
\* each unsuccessful round followed by one sleep; it can always take its next
\* round; it returns the listing of the first query that succeeds (empty
\* when the store lists nothing), and gives up with an empty history only
\* after 15 unsuccessful rounds.
C7_BoundedRetry ==
    /\ \A w \in Workers :
          req[w].op = "history" =>
              /\ req[w].attempt < 15
              /\ req[w].queries <= req[w].attempt
              /\ ENABLED HistoryAttempt(w)
    /\ resp.op = "history" =>
          /\ resp.attempts <= 15 /\ resp.queries <= resp.attempts
          /\ resp.gave_up => /\ resp.history = <<>>
                             /\ resp.attempts = 15 /\ resp.sleeps = 15
          /\ ~resp.gave_up => /\ resp.history = Listing
                              /\ resp.sleeps = resp.attempts - 1
                              /\ resp.queries >= 1

\* C7 witness: the history gave up after 15 listing queries that all failed.
C7_GaveUpAfterFifteen ==
    resp.op = "history" /\ resp.gave_up /\ resp.queries = 15 /\ db_datasets # Empty

\* the distinct values of the schema's time column in a frame
DistinctTimes(df, schema) ==
    IF schema.timeColumn = None THEN 0 ELSE nunique(Column(df, schema.timeColumn))

Thresholds(df, schema) ==
    LET c == DistinctTimes(df, schema)
    IN  /\ schema.dataType \in {"TIME_SERIES", "SNAPSHOT"}
        /\ schema.dataType = "TIME_SERIES" <=> c >= 3
        /\ schema.canPredict <=> (schema.dataType = "TIME_SERIES" /\ c >= 6)

\* C8: for the schema in memory and the dataset in memory, and for the
\* stored schema document and the stored blob, with c the number of distinct
\* values in the schema's time column (0 without one): data_type is
\* TIME_SERIES iff c >= 3, else SNAPSHOT, and can_predict iff TIME_SERIES and
\* c >= 6.
C8_ClassificationThresholds ==
    /\ \A id \in DOMAIN uploaded_data :
          Thresholds(uploaded_data[id], detected_schemas[id])
    /\ \A id \in DOMAIN db_datasets \cap DOMAIN db_storage :
          Thresholds(read_csv(Decompress(db_storage[id].data)), db_datasets[id].schema)

\* C8 witness: a table of more rows than distinct time values, with exactly
\* 3 of them, is classified TIME_SERIES and not predictable.
C8_ThreeDistinct ==
    \E id \in DOMAIN uploaded_data :
        /\ DistinctTimes(uploaded_data[id], detected_schemas[id]) = 3
        /\ Len(uploaded_data[id].rows) >= 6
        /\ detected_schemas[id].dataType = "TIME_SERIES"
        /\ ~detected_schemas[id].canPredict

StoredSchemas ==
    {detected_schemas[id] : id \in DOMAIN detected_schemas}
    \cup {db_datasets[id].schema : id \in DOMAIN db_datasets}

\* C9: no schema in the memory table or in the stored documents lists its
\* time column or its region column among its metric columns.
C9_MetricsExcludeRoles ==
    \A schema \in StoredSchemas :
        /\ schema.timeColumn \notin Range(schema.metricColumns)
        /\ schema.regionColumn \notin Range(schema.metricColumns)

\* C9 witness: a stored document of a table whose numeric "Year" column was
\* detected by name and reverted: no time column, "State" the region,
\* "value" the only metric.
C9_RevertedStored ==
    \E id \in DOMAIN db_datasets :
        /\ db_datasets[id].columns = <<"Year", "State", "value">>
        /\ db_datasets[id].schema.timeColumn = None
        /\ db_datasets[id].schema.regionColumn = "State"
        /\ db_datasets[id].schema.metricColumns = <<"value">>
        /\ id \in DOMAIN detected_schemas

\* C10: when get_predictions finds the dataset and the memory schema has
\* can_predict false, it answers canPredict false with the schema's stored
\* reason and no predictions, without running the regression; the reason
\* names 6 and the number of distinct time values of the dataset.
C10_ForecastGating ==
    (/\ resp.op = "predict" /\ resp.status # 404
     /\ resp.file_id \in DOMAIN detected_schemas
     /\ ~detected_schemas[resp.file_id].canPredict) =>
        LET schema == detected_schemas[resp.file_id]
            df == get_or_load_dataframe(resp.file_id).df
        IN  /\ resp.status = 200
            /\ ~resp.canPredict /\ ~resp.engine /\ resp.predictions = <<>>
            /\ resp.reason = schema.predictionReason
            /\ resp.reason = <<"Requires >=", 6, " time points (found ",
                               DistinctTimes(df, schema), ")">>

\* C10 witness: a prediction request on a TIME_SERIES table of more than 3
\* rows and 3 distinct time values was refused with the reason naming 6
\* and 3.
C10_RefusedWithThree ==
    /\ resp.op = "predict" /\ resp.status = 200 /\ ~resp.canPredict
    /\ resp.reason = <<"Requires >=", 6, " time points (found ", 3, ")">>
    /\ detected_schemas[resp.file_id].dataType = "TIME_SERIES"
    /\ Len(get_or_load_dataframe(resp.file_id).df.rows) > 3

\* an upload the handler rejects: no .csv name, no columns, or no rows
Rejectable(filename, contents) ==
    ~EndsWithCsv(filename) \/ contents.header = <<>> \/ contents.lines = <<>>

\* C11: the step in which upload_csv takes a request, and the step in which
\* it returns a failure, leave the memory tables, the disk files and the
\* stored collections as they were; an upload without a .csv name fails
\* with 400 at once, and one whose content has no columns or no rows fails
\* when it is processed.
C11_RejectedUploadFrame ==
    [][/\ (resp'.op = "upload" /\ resp'.status # 200) => UNCHANGED tiers
       /\ uploads' # uploads => UNCHANGED tiers
       /\ (uploads' # uploads /\ req' = req) => (resp'.op = "upload" /\ resp'.status = 400)
       /\ \A w \in Workers :
             (/\ req[w].op = "upload" /\ req[w].pc = "read"
              /\ req'[w] = Idle /\ resp' # NoResponse
              /\ Rejectable(req[w].filename, req[w].contents)) =>
                 /\ resp'.op = "upload" /\ resp'.status \in {400, 500}
                 /\ UNCHANGED tiers]_vars

\* C11 witness: an upload was rejected while every tier held the dataset of
\* an earlier upload.
C11_RejectedAfterIngestion ==
    /\ resp.op = "upload" /\ resp.status = 500
    /\ Tier1("data_a") /\ Tier2("data_a") /\ Tier3("data_a")
    /\ "data_a" \in DOMAIN db_datasets

\* C12: calculate_moving_average with window 3 returns as many entries as it
\* was given values; exactly the first 2 (or all, of a shorter series) are
\* null, and every later entry is the mean of its value and the 2 before
\* it, to two decimals.
C12_MovingAverage ==
    resp.op = "moving_average" =>
        /\ Len(resp.result) = Len(resp.values)
        /\ \A j \in DOMAIN resp.result :
              /\ resp.result[j] = Null <=> j <= 2
              /\ j > 2 => resp.result[j] =
                    Float2(RoundDiv(100 * (resp.values[j - 2] + resp.values[j - 1]
                                           + resp.values[j]), 3))

\* C12 witness: a series of 4 values got two nulls and two means, the last
\* one the mean of 1, 3 and 3 (2.33).
C12_TwoNullsTwoMeans ==
    /\ resp.op = "moving_average"
    /\ resp.values = <<0, 1, 3, 3>>
    /\ resp.result = <<Null, Null, Float2(133), Float2(233)>>

\* C13: calculate_growth_rates returns as many entries as it was given
\* values, the empty series included; the first is null and entry i >= 1
\* is null exactly when v[i-1] = 0.
C13_GrowthRates ==
    resp.op = "growth_rates" =>
        /\ Len(resp.result) = Len(resp.values)
        /\ \A j \in DOMAIN resp.result :
              resp.result[j] = Null <=> (j = 1 \/ resp.values[j - 1] = 0)

\* C14: when the content just ingested under an id is ingested again, the
\* second ingestion's memory write leaves the schema (time column, region
\* column, metric columns, data type, row count, can_predict, reason) and
\* the memory dataset as the first ingestion left them.
C14_Idempotent ==
    [][\A w \in Workers :
          (/\ w # 1
           /\ req[w].op = "upload" /\ req[w].pc = "read"
           /\ req'[w] # req[w]
           /\ "data_a" \in DOMAIN uploaded_data) =>
              /\ detected_schemas' = detected_schemas
              /\ uploaded_data' = uploaded_data]_vars

\* the sum of a metric over the rows of one region
RegionTotal(df, region, metric, key) ==
    Sum([i \in 1..Len(df.rows) |->
           IF df.rows[i][region] = key /\ df.rows[i][metric].k = "int"
           THEN df.rows[i][metric].v ELSE 0])

\* C15: for a dataset whose memory schema has no time column, a region
\* column and a metric, get_trends succeeds with min(20, number of distinct
\* regions) entries, each a different region valued with the sum of the
\* first metric over it, in non-increasing order of that sum, and no region
\* left out has a larger sum than one returned.
C15_SnapshotRanking ==
    (/\ resp.op = "trends" /\ resp.status # 404
     /\ resp.file_id \in DOMAIN detected_schemas
     /\ detected_schemas[resp.file_id].timeColumn = None
     /\ detected_schemas[resp.file_id].regionColumn # None
     /\ detected_schemas[resp.file_id].metricColumns # <<>>) =>
        LET schema == detected_schemas[resp.file_id]
            df == get_or_load_dataframe(resp.file_id).df
            region == schema.regionColumn
            metric == schema.metricColumns[1]
            keys == {df.rows[i][region] : i \in {j \in 1..Len(df.rows) :
                                                    ~IsNull(df.rows[j][region])}}
        IN  /\ resp.status = 200
            /\ Len(resp.data) <= 20
            /\ Len(resp.data) = Min(20, Cardinality(keys))
            /\ \A n \in DOMAIN resp.data :
                  /\ resp.data[n].period \in keys
                  /\ resp.data[n].value = RegionTotal(df, region, metric, resp.data[n].period)
                  /\ \A m \in DOMAIN resp.data :
                        /\ m # n => resp.data[m].period # resp.data[n].period
                        /\ m < n => resp.data[m].value >= resp.data[n].value
                  /\ \A key \in keys \ {resp.data[m].period : m \in DOMAIN resp.data} :
                        RegionTotal(df, region, metric, key) <= resp.data[n].value

\* C15 witness: a table of 22 regions with different sums was ranked, and 2
\* regions were left out.
C15_TwentyOfTwentyTwo ==
    /\ resp.op = "trends" /\ resp.status = 200
    /\ detected_schemas[resp.file_id].timeColumn = None
    /\ Len(resp.data) = 20
    /\ resp.data[1].value > resp.data[20].value
    /\ Cardinality(Range(Column(uploaded_data[resp.file_id], "State"))) = 22

\* worker w's upload runs its synchronous part in this step and stores a
\* dataset
Processes(w) ==
    /\ req[w].op = "upload" /\ req[w].pc = "read"
    /\ req'[w] # req[w]
    /\ FileId(req[w].filename) \in DOMAIN uploaded_data'

\* no value of the column parses under a format the upload tries on it
NothingParses(original_dates) ==
    \A i \in DOMAIN original_dates :
        /\ ParseGeneric(original_dates[i]) = NaT
        /\ SampleHasDash(original_dates) =>
              /\ \A year \in Years : ParseDayMonth(original_dates[i], year) = NaT
              /\ ParseMonthYear(original_dates[i]) = NaT

\* C16: when a column was selected as time column and none of its values
\* parses under any format tried, the ingestion stores the table as it was
\* read (every row, the column's original values) and a schema without time
\* column, classified SNAPSHOT with can_predict false.
C16_NonTemporalRevert ==
    [][\A w \in Workers :
          LET raw == read_csv(req[w].contents)
              id == FileId(req[w].filename)
          IN  (/\ Processes(w)
               /\ detect_time_column(raw) # None
               /\ NothingParses(Column(raw, detect_time_column(raw)))) =>
                  /\ uploaded_data'[id] = raw
                  /\ detected_schemas'[id].timeColumn = None
                  /\ detected_schemas'[id].rowCount = Len(raw.rows)
                  /\ detected_schemas'[id].dataType = "SNAPSHOT"
                  /\ ~detected_schemas'[id].canPredict]_vars

\* C16 witness: a table of 6 rows whose "Year" column is free text is in
\* memory with all its rows, the text in place, and no time column in its
\* schema.
C16_TextYearKept ==
    \E id \in DOMAIN uploaded_data :
        /\ "Year" \in Range(uploaded_data[id].columns)
        /\ Len(uploaded_data[id].rows) = 6
        /\ \A i \in 1..6 : uploaded_data[id].rows[i]["Year"] = Cell("txt", i)
        /\ detected_schemas[id].timeColumn = None
        /\ detected_schemas[id].dataType = "SNAPSHOT"

\* the square of a margin, times 100 n D^2: margins of one fit compare as
\* these do
MarginSquare(margin) == margin.std_error.ss * Square(margin.tenths)

\* C17: for a series of n points and a horizon h >= 1,
\* perform_linear_regression returns exactly h predictions; the k-th is
\* labelled "Forecast k", is the fitted line's value at index n + k, has the
\* margin stdError * (1.5 + 0.1 * (k - 1)) with stdError the standard
\* deviation of the residuals, and its bounds are the predicted value minus
\* and plus that margin; the margin never decreases with k and increases
\* strictly when stdError > 0.
C17_ForecastShape ==
    resp.op = "regression" =>
        LET n == Len(resp.values)
            time_indices == [i \in 1..n |-> i]
            model == Fit(time_indices, resp.values)
            std_error == StdError(model, time_indices, resp.values)
            predictions == resp.result.predictions
        IN  /\ Len(predictions) = resp.periods
            /\ \A k \in DOMAIN predictions :
                  /\ predictions[k].period = <<"Forecast ", k>>
                  /\ predictions[k].index = n + k
                  /\ predictions[k].value = Round2(PredictAt(model, n + k))
                  /\ predictions[k].margin = [std_error |-> std_error,
                                              tenths |-> 15 + (k - 1)]
                  /\ predictions[k].lowerBound =
                        [pred |-> PredictAt(model, n + k), sign |-> 0 - 1,
                         margin |-> predictions[k].margin]
                  /\ predictions[k].upperBound =
                        [pred |-> PredictAt(model, n + k), sign |-> 1,
                         margin |-> predictions[k].margin]
                  /\ k > 1 =>
                        /\ MarginSquare(predictions[k].margin)
                              >= MarginSquare(predictions[k - 1].margin)
                        /\ std_error.ss > 0 =>
                              MarginSquare(predictions[k].margin)
                                 > MarginSquare(predictions[k - 1].margin)

\* C17 witness: a horizon of 2 on 4 points off their line gave 2
\* predictions, at indices 5 and 6, with margins of 1.5 and 1.6 times a
\* positive stdError.
C17_TwoWideningForecasts ==
    /\ resp.op = "regression" /\ resp.periods = 2 /\ Len(resp.values) = 4
    /\ Len(resp.result.predictions) = 2
    /\ resp.result.predictions[1].index = 5 /\ resp.result.predictions[2].index = 6
    /\ resp.result.predictions[1].margin.tenths = 15
    /\ resp.result.predictions[2].margin.tenths = 16
    /\ resp.result.predictions[1].margin.std_error.ss > 0

\* the column under each format of the upload
UnderGeneric(original_dates) ==
    [i \in DOMAIN original_dates |-> ParseGeneric(original_dates[i])]

UnderDayMonth(original_dates, year) ==
    [i \in DOMAIN original_dates |-> ParseDayMonth(original_dates[i], year)]

UnderMonthYear(original_dates) ==
    [i \in DOMAIN original_dates |-> ParseMonthYear(original_dates[i])]

SomeParsed(cells) == NaCount(cells) < Len(cells)

\* the formats the upload tries on a column, as the columns they give
Attempts(original_dates) ==
    {UnderGeneric(original_dates)}
    \cup (IF ManyNaT(UnderGeneric(original_dates)) /\ SampleHasDash(original_dates)
          THEN {UnderDayMonth(original_dates, year) : year \in Years}
               \cup {UnderMonthYear(original_dates)}
          ELSE {})

\* C18: when at least one value of the selected time column parses under an
\* attempt made on it (the generic one included, also when the fallback
\* formats tried after it parse nothing), the column stays the schema's
\* time column, the stored dataset is exactly the rows whose value parsed
\* under one attempt, in ascending order of the parsed value, and row_count
\* is their number.
C18_ParseAttemptsKeepSuccess ==
    [][\A w \in Workers :
          LET raw == read_csv(req[w].contents)
              id == FileId(req[w].filename)
              time_col == detect_time_column(raw)
              original_dates == Column(raw, time_col)
          IN  (/\ Processes(w)
               /\ time_col # None
               /\ \A year \in Years :
                     \/ SomeParsed(UnderGeneric(original_dates))
                     \/ /\ ManyNaT(UnderGeneric(original_dates))
                        /\ SampleHasDash(original_dates)
                        /\ SomeParsed(UnderDayMonth(original_dates, year))) =>
                  /\ detected_schemas'[id].timeColumn = time_col
                  /\ detected_schemas'[id].rowCount = Len(uploaded_data'[id].rows)
                  /\ \E cells \in Attempts(original_dates) :
                        /\ SomeParsed(cells)
                        /\ uploaded_data'[id] =
                              sort_values(dropna(MapColumn(raw, time_col, cells), time_col),
                                          time_col)]_vars

\* the formats tried by the upload that worker w processes in this step
TriedBy(w) == IF req'[w].op = "upload" THEN req'[w].tried ELSE resp'.tried

\* the values of a column the generic parse does not accept, empty ones
\* included
GenericFailures(original_dates) == NaCount(UnderGeneric(original_dates))

\* C19 as stated: the day-month format is tried exactly when at least half
\* of the column's values fail the generic parse and the first non-null
\* value is text holding a "-".
C19_FallbackAtHalf ==
    [][\A w \in Workers :
          LET raw == read_csv(req[w].contents)
              original_dates == Column(raw, detect_time_column(raw))
          IN  (Processes(w) /\ detect_time_column(raw) # None) =>
                  ("day-month" \in TriedBy(w) <=>
                      /\ 2 * GenericFailures(original_dates) >= Len(original_dates)
                      /\ SampleHasDash(original_dates))]_vars

\* C19 as amended: the day-month format is tried exactly when more than
\* half of the column's values fail the generic parse and the first
\* non-null value is text holding a "-"; the month-year format is tried
\* only after it, when more than half of the values fail it too.
C19_FallbackAboveHalf ==
    [][\A w \in Workers :
          LET raw == read_csv(req[w].contents)
              original_dates == Column(raw, detect_time_column(raw))
          IN  (Processes(w) /\ detect_time_column(raw) # None) =>
                  /\ "generic" \in TriedBy(w)
                  /\ "day-month" \in TriedBy(w) <=>
                        /\ 2 * GenericFailures(original_dates) > Len(original_dates)
                        /\ SampleHasDash(original_dates)
                  /\ "month-year" \in TriedBy(w) <=>
                        /\ "day-month" \in TriedBy(w)
                        /\ \E year \in Years :
                              2 * NaCount(UnderDayMonth(original_dates, year))
                                 > Len(original_dates)]_vars

\* C19 witness: an upload of 4 rows, 2 of them failing the generic parse and
\* the first one dated text, was cleaned with the generic format alone and
\* kept the 2 rows that parsed.
C19_HalfFailedNoFallback ==
    /\ resp.op = "upload" /\ resp.status = 200
    /\ resp.tried = {"generic"}
    /\ detected_schemas[resp.file_id].timeColumn # None
    /\ Len(uploaded_data[resp.file_id].rows) = 2
    /\ "data_a" \in DOMAIN disk /\ Len(disk["data_a"].lines) = 2

\* C20: for a dataset in memory, get_stats reports for each metric the
\* growth (last - first) / first * 100 rounded to 2 places when the schema
\* is TIME_SERIES and the metric has at least 2 non-null values, the first
\* of them not 0 (0.0 when last = first), and null otherwise.
C20_SummaryGrowthRate ==
    (/\ resp.op = "stats" /\ resp.status = 200 /\ resp.tier = 1
     /\ resp.file_id \in DOMAIN uploaded_data
     /\ resp.file_id \in DOMAIN detected_schemas) =>
        LET schema == detected_schemas[resp.file_id]
            df == uploaded_data[resp.file_id]
        IN  \A k \in DOMAIN resp.stats :
               LET values == NonNull(df, resp.stats[k].column)
                   first_val == values[1]
                   last_val == values[Len(values)]
               IN  resp.stats[k].growthRate =
                      IF schema.dataType = "TIME_SERIES" /\ Len(values) >= 2
                         /\ first_val # 0
                      THEN Float2(RoundDiv((last_val - first_val) * 10000, first_val))
                      ELSE Null

\* the response answers a request that found its dataset and its schema
Answered(ops) ==
    /\ resp.op \in ops /\ resp.status # 404
    /\ resp.file_id \in DOMAIN detected_schemas
    /\ resp.file_id \in DOMAIN uploaded_data

\* the metric the request names is not one of the schema's
ForeignMetric ==
    /\ resp.asked.metric # None
    /\ resp.asked.metric \notin Range(detected_schemas[resp.file_id].metricColumns)

\* C21: a stats, trends or predict request naming a metric that is not in
\* the schema's metric list succeeds, and what it returns is about the
\* first metric column of the schema: the one stats entry, the metric of
\* the trend, the historical values of the forecast.
C21_MetricFallback ==
    (Answered({"stats", "trends", "predict"}) /\ ForeignMetric) =>
        LET schema == detected_schemas[resp.file_id]
            df == uploaded_data[resp.file_id]
        IN  /\ resp.status = 200
            /\ schema.metricColumns # <<>>
            /\ resp.op = "stats" =>
                  /\ Len(resp.stats) = 1
                  /\ resp.stats[1].column = schema.metricColumns[1]
            /\ resp.op = "trends" => resp.metric = schema.metricColumns[1]
            /\ (resp.op = "predict" /\ resp.canPredict) =>
                  Sum([i \in DOMAIN resp.historical |-> resp.historical[i].value.v])
                     = 100 * Sum([i \in DOMAIN df.rows |->
                                     NumberOf(df.rows[i][schema.metricColumns[1]])])

\* the sum of a metric over the rows of one time value
PeriodTotal(df, time_col, metric, period) ==
    Sum([i \in 1..Len(df.rows) |->
           IF df.rows[i][time_col] = period THEN NumberOf(df.rows[i][metric]) ELSE 0])

\* C22: for a dataset with a time column, a trend request whose region
\* argument is absent, or has no effect because the schema has no region
\* column, returns one entry for each distinct time value, valued with the
\* sum of the metric over the rows of that time, in ascending order of time.
C22_GroupedByTime ==
    (/\ Answered({"trends"}) /\ resp.status = 200
     /\ detected_schemas[resp.file_id].timeColumn # None
     /\ \/ resp.asked.region = Null
        \/ detected_schemas[resp.file_id].regionColumn = None) =>
        LET schema == detected_schemas[resp.file_id]
            df == uploaded_data[resp.file_id]
            times == Range(Column(df, schema.timeColumn))
        IN  /\ Len(resp.data) = Cardinality(times)
            /\ \A i \in DOMAIN resp.data :
                  /\ resp.data[i].period \in times
                  /\ resp.data[i].value =
                        Float2(100 * PeriodTotal(df, schema.timeColumn, resp.metric,
                                                 resp.data[i].period))
                  /\ \A j \in DOMAIN resp.data :
                        i < j => resp.data[i].period.v < resp.data[j].period.v

\* C23: for a dataset whose schema lacks a time column, a region column or
\* both, a query without a metric argument ends in a normal result or a
\* client error, never in a server error: trends with neither column is
\* refused with 400, predict without a time column answers canPredict
\* false, regions without a region column answers the empty list.
C23_PartialInferenceNeverCrashes ==
    (/\ Answered(QueryOps) /\ resp.asked.metric = None
     /\ \/ detected_schemas[resp.file_id].timeColumn = None
        \/ detected_schemas[resp.file_id].regionColumn = None) =>
        LET schema == detected_schemas[resp.file_id]
        IN  /\ resp.status \in {200, 400}
            /\ (resp.op = "trends" /\ schema.timeColumn = None
                /\ schema.regionColumn = None) => resp.status = 400
            /\ (resp.op = "predict" /\ schema.timeColumn = None) =>
                  resp.status = 200 /\ ~resp.canPredict
            /\ (resp.op = "regions" /\ schema.regionColumn = None) =>
                  resp.status = 200 /\ resp.regions = {}

\* the dataset a query obtains for file_id and the memory schema of
\* file_id come from one ingestion
OfOneIngestion(file_id) ==
    LET loaded == get_or_load_dataframe(file_id)
    IN  \E filename \in FileNames, contents \in Uploads, current_year \in Years :
           LET ing == Ingest(filename, contents, current_year)
           IN  /\ ing.ok /\ ing.file_id = file_id
               /\ ing.schema = detected_schemas[file_id]
               /\ IF loaded.tier = 1 THEN ing.df = loaded.df
                  ELSE to_csv(ing.df) = disk[file_id]

\* C24: in every state, for every id a query would obtain a dataset for,
\* from memory or from the disk file, the memory schema table holds a
\* schema for the id and it is the schema of the ingestion that produced
\* that dataset.
C24_SchemaWithDataset ==
    \A file_id \in FileIds :
       get_or_load_dataframe(file_id).found =>
          /\ file_id \in DOMAIN detected_schemas
          /\ OfOneIngestion(file_id)

\* an upload of file_id that overlapped another one returned with every
\* tier written
OverlappedAndComplete(r, file_id) ==
    /\ r.op = "upload" /\ r.pc = "done" /\ r.status = 200
    /\ r.file_id = file_id
    /\ r.overlapped /\ r.persisted = AllWrites

\* C25: when an upload that overlapped another upload of its id returns with
\* every tier written, right after the return of such an upload of the same
\* id, the memory dataset, the disk file, the stored blob and the stored
\* schema document are those of one ingestion.
C25_TiersAgreeAfterOverlap ==
    [][\A w \in Workers :
          (/\ UploadReturns(w)
           /\ OverlappedAndComplete(resp, req[w].file_id)
           /\ OverlappedAndComplete(resp', req[w].file_id)) =>
              LET id == req[w].file_id
              IN  /\ disk'[id] = to_csv(uploaded_data'[id])
                  /\ Decompress(db_storage'[id].data) = to_csv(uploaded_data'[id])
                  /\ db_datasets'[id].schema = detected_schemas'[id]
                  /\ db_datasets'[id].row_count = Len(uploaded_data'[id].rows)]_vars

===========================================================================
